---- MODULE Spec2Model ----
(***************************************************************************)
(* Coordination core of the Mava multi-agent RL framework:                 *)
(*   - VariableClient (mava/systems/tf/variable_utils.py): the periodic    *)
(*     asynchronous / synchronous parameter pull and push of an executor   *)
(*     or trainer, its single background worker and its single future;     *)
(*   - MADDPGBuilder.make_executor (mava/systems/tf/maddpg/builder.py);    *)
(*   - MADQNTrainer / MADQNRecurrentTrainer target synchronisation         *)
(*     (mava/systems/tf/madqn/training.py).                                *)
(* Parameter values are abstracted to version numbers: the variable server *)
(* holds version server_params of the pulled key, and every publication by *)
(* the trainer raises it by one.                                           *)
(***************************************************************************)
EXTENDS Integers, Sequences, FiniteSets, TLC

\* ------------------------------------------------------------------ bounds
MaxVersion == 1        \* versions the trainer publishes to the server
MaxCount == 1          \* values of the locally mutated (pushed) variable
GetPeriod == 2         \* get_period given to the VariableClient
SetPeriod == 2         \* set_period given to the VariableClient

Min(a, b) == IF a < b THEN a ELSE b

\* =================================================================
\* VariableClient
\* =================================================================
VARIABLES
    server_params,     \* variable server: value of the key the client pulls
    server_counts,     \* variable server: value of the key the client pushes
    variables,         \* self._variables: the client's local copies
    get_call_counter,  \* self._get_call_counter
    set_call_counter,  \* self._set_call_counter
    future,            \* self._future
    queue,             \* work queue of self._executor (one worker thread)
    raised,            \* exception the last client call raised to its caller
    since_submit,      \* get_async calls made since the last get submission
    gap,               \* get_async calls between the last two get submissions
    window,            \* server_params at each of the last GetPeriod+1 get_async calls
    last_copy_sub      \* server_params when the last copied async request was submitted

clientVars == <<server_params, server_counts, variables, get_call_counter,
                set_call_counter, future, queue, raised, since_submit, gap,
                window, last_copy_sub>>

\* make_executor calls, one per executor process.
VARIABLES
    ex_pc,             \* position of each make_executor call
    ex_source,         \* whether the call was given a variable_source
    ex_client,         \* whether variable_client is an object (not None)
    ex_pulls,          \* parameter pulls completed for the executor
    ex_policy,         \* policy variables: restored from the server or not, and which version
    ex_actions         \* actions selected by the executor

builderVars == <<ex_pc, ex_source, ex_client, ex_pulls, ex_policy, ex_actions>>

\* The trainer.
VARIABLES
    trainer_fn,             \* the trainer class
    mixing_type,            \* class of self._mixing_network ("none": no mixing network)
    q_networks,             \* parameters of self._q_networks[key]
    target_q_networks,      \* parameters of self._target_q_networks[key]
    mixing_network,         \* parameters of self._mixing_network
    target_mixing_network,  \* parameters of self._target_mixing_network
    num_steps,              \* self._num_steps
    t_pc,                   \* position inside _step
    steps_done,             \* trainer steps completed
    importance_sampling_exponent,  \* self._importance_sampling_exponent: "None" or "set"
    replay_client,          \* class of self._replay_client ("None": not supplied)
    priority_updates,       \* mutate_priorities calls made on the replay client
    returned,               \* what the last get_variables(["q_network"]) call returned
    inputs_keys,            \* inputs.info.key of the batch next(self._iterator) gave
    sample_keys,            \* self._sample_keys
    mutated_keys,           \* keys of the last mutate_priorities call
    applied,                \* network keys the last _backward applied an optimizer to
    double_q_learning,      \* self._double_q_learning
    target_rule             \* how the last _forward took the target Q-value

stepVars == <<returned, inputs_keys, sample_keys, mutated_keys, applied,
              double_q_learning, target_rule>>

trainerVars == <<trainer_fn, mixing_type, q_networks, target_q_networks,
                 mixing_network, target_mixing_network, num_steps, t_pc,
                 steps_done, importance_sampling_exponent, replay_client,
                 priority_updates, stepVars>>

\* The builder's replay components and the replay table they are built around.
VARIABLES
    executor_fn,        \* self._executor_fn of the builder
    samples_per_insert, \* config.samples_per_insert (0: None)
    min_replay_size,    \* config.min_replay_size
    replay_table,       \* what make_replay_tables returned or raised
    adder,              \* what make_adder returned or raised
    dataset,            \* what make_dataset_iterator returned or raised
    items,              \* records stored in the table, in insertion order
    inserts,            \* inserts the table has accepted
    samples,            \* samples the table has served
    last_sampled,       \* key of the record sampled last (0: none yet)
    last_removed,       \* key of the record removed last (0: none yet)
    schema_errors,      \* inserts the table rejected for their signature
    fetched,            \* samples the dataset holds for the next batch
    batches             \* batches the trainer has taken from the dataset

replayVars == <<executor_fn, samples_per_insert, min_replay_size, replay_table,
                adder, dataset, items, inserts, samples, last_sampled,
                last_removed, schema_errors, fetched, batches>>

\* The sequence adder make_adder creates, over one episode.
VARIABLES
    cfg_sequence_length,  \* config.sequence_length
    cfg_period,           \* config.period
    episode_length,       \* timesteps the episode will have
    episode_steps,        \* timesteps written to the adder so far
    window_start,         \* offset of the window being filled
    records,              \* records emitted: offset and filled mask
    episode_over          \* the last timestep has been written

adderVars == <<cfg_sequence_length, cfg_period, episode_length, episode_steps,
               window_start, records, episode_over>>

\* One call of the action selector make_default_networks returns.
VARIABLES
    q_values,       \* Q-value of each action
    legal_actions,  \* legal-action mask
    epsilon,        \* epsilon of the last call, in tenths
    action          \* action the last call returned (0: no call yet)

selectorVars == <<q_values, legal_actions, epsilon, action>>

\* The masked loss of MADQNRecurrentTrainer._forward.
VARIABLES
    zero_padding_mask,  \* inputs.data.extras["filled"], [B, T]
    mixed,              \* whether the trainer has a mixing and a target mixing network
    loss_terms,         \* TD-error terms the mask keeps in the numerator
    loss_denominator,   \* tf.reduce_sum(zero_padding_mask)
    loss_pc             \* "inputs": before _forward, "done": after

lossVars == <<zero_padding_mask, mixed, loss_terms, loss_denominator, loss_pc>>

\* The System builder and its callbacks.
VARIABLES
    components,         \* the components argument: group -> components of the group
    callbacks,          \* self.callbacks
    sys_op,             \* the builder operation called last ("none": not constructed)
    sys_stage,          \* the stage the call is about to fire (0: the call has returned)
    fired,              \* hooks the call has fired, with the callback each reached
    attrs,              \* instance attributes the operations return
    sys_result          \* what the last call returned

systemVars == <<components, callbacks, sys_op, sys_stage, fired, attrs, sys_result>>

\* An executor with an OnlineObserver among its callbacks.
VARIABLES
    executor_adder,     \* the executor's adder ("None": an evaluator)
    observer_adder,     \* the attribute _adder of the OnlineObserver object
    observe_events,     \* observe_first / observe calls made on the executor
    adder_calls,        \* add_first / add calls made on the adder
    observe_raised      \* exception the last observe call raised

observerVars == <<executor_adder, observer_adder, observe_events, adder_calls,
                  observe_raised>>

vars == <<clientVars, builderVars, trainerVars, replayVars, adderVars,
          selectorVars, lossVars, systemVars, observerVars>>

\* The value None (what set_variables returns).
None == -1

\* self._future = None
NoFuture == [kind |-> "none", status |-> "none", result |-> None, sub |-> 0]

NewFuture(kind) == [kind |-> kind, status |-> "pending", result |-> None,
                    sub |-> server_params]

\* futures.Future.done(): true of a finished future, failed or not.
Done(f) == f.status \in {"done", "failed"}

\* Mutant of Copy: the new values are dropped, as for a value type _copy has no
\* branch for.
Copy_Ignored(old, new) == old

\* self._copy(new_variables): assigns every key of new_variables.
Copy(old, new) ==
    [k \in DOMAIN old |-> IF k \in DOMAIN new THEN new[k] ELSE old[k]]

\* self._request(): client.get_variables(self._get_keys)
Request == [params |-> server_params]

\* self._request_all(): client.get_variables(self._all_keys)
RequestAll == [params |-> server_params, counts |-> server_counts]

ClientInit ==
    /\ server_params = 0
    /\ server_counts = 0
    /\ variables = [params |-> 0, counts |-> 0]
    /\ get_call_counter = 0
    /\ set_call_counter = 0
    /\ future = NoFuture
    /\ queue = <<>>
    /\ raised = "none"
    /\ since_submit = GetPeriod
    /\ gap = GetPeriod
    /\ window = <<>>
    /\ last_copy_sub = 0

\* The single worker thread takes the oldest submitted request and runs it:
\* self._request or self._adjust, against the server as it is at that moment.
\* ok = FALSE: the server call raises in the worker.
WorkerResult(req) == IF req.kind = "get" THEN server_params ELSE None

Finished(f, req, ok) ==
    IF ok THEN [f EXCEPT !.status = "done", !.result = WorkerResult(req)]
    ELSE [f EXCEPT !.status = "failed"]

RunWorker(ok) ==
    /\ queue # <<>>
    /\ LET req == Head(queue) IN
        /\ queue' = Tail(queue)
        /\ future' = IF req.held THEN Finished(future, req, ok) ELSE future
        /\ server_counts' = IF req.kind = "set" /\ ok THEN variables.counts
                            ELSE server_counts
    /\ UNCHANGED <<server_params, variables, get_call_counter, set_call_counter,
                   raised, since_submit, gap, window, last_copy_sub>>

\* self._executor.submit(...): the request joins the work queue and the client
\* holds its future; a future the client held before is no longer referenced.
\* at_call records the local value at the moment of the submitting call; the
\* submitted callable (self._request, self._adjust) carries no value of its own.
Submit(q, kind) ==
    Append([i \in 1..Len(q) |-> [q[i] EXCEPT !.held = FALSE]],
           [kind |-> kind, held |-> TRUE, at_call |-> variables.counts])

\* Mutant of GetSubmits: the period alone decides, a held future is not looked at.
GetSubmits_NoGuard(c) == c >= GetPeriod

\* get_async line 76: a request is made only when the period has been reached and
\* no future is held.
GetSubmits(c) == c >= GetPeriod /\ future = NoFuture

\* get_async lines 81-85: what is done with a finished future.  A failed future's
\* result() re-raises the worker's exception; the result None of a set request has
\* no keys(), so _copy raises AttributeError; in both cases the future is kept.
GetConsume(f, c) ==
    IF f # NoFuture /\ Done(f)
    THEN IF f.status = "failed"
         THEN /\ raised' = "rpc_error"
              /\ future' = f
              /\ get_call_counter' = c
              /\ UNCHANGED <<variables, last_copy_sub>>
         ELSE IF f.result = None
         THEN /\ raised' = "attribute_error"
              /\ future' = f
              /\ get_call_counter' = c
              /\ UNCHANGED <<variables, last_copy_sub>>
         ELSE /\ variables' = Copy(variables, [params |-> f.result])
              /\ future' = NoFuture
              /\ get_call_counter' = 0
              /\ raised' = "none"
              /\ last_copy_sub' = f.sub
    ELSE /\ future' = f
         /\ get_call_counter' = c
         /\ raised' = "none"
         /\ UNCHANGED <<variables, last_copy_sub>>

\* VariableClient.get_async.  w is what the worker thread does between the
\* submission and the done() test of the same call: nothing yet ("slow"), or it
\* has already served the request ("ok") or failed on it ("fail").
GetAsync(w) ==
    LET c1 == IF get_call_counter < GetPeriod THEN get_call_counter + 1
              ELSE get_call_counter
        submit == GetSubmits(c1)
        f1 == IF submit THEN NewFuture("get") ELSE future
        q1 == IF submit THEN Submit(queue, "get") ELSE queue
        fast == w # "slow"
        f2 == IF fast THEN Finished(f1, [kind |-> "get"], w = "ok") ELSE f1
        q2 == IF fast THEN Tail(q1) ELSE q1
    IN  /\ (fast => submit /\ queue = <<>>)
        /\ queue' = q2
        /\ GetConsume(f2, c1)
        /\ since_submit' = IF submit THEN 0 ELSE Min(since_submit + 1, GetPeriod)
        /\ gap' = IF submit THEN Min(since_submit + 1, GetPeriod) ELSE gap
        /\ window' = LET w1 == Append(window, server_params) IN
                     IF Len(w1) > GetPeriod + 1 THEN Tail(w1) ELSE w1
        /\ UNCHANGED <<server_params, server_counts, set_call_counter>>

\* set_async line 97.
SetSubmits(c) == c >= SetPeriod /\ future = NoFuture

\* VariableClient.set_async.
SetAsync ==
    LET c1 == IF set_call_counter < SetPeriod THEN set_call_counter + 1
              ELSE set_call_counter
    IN  /\ IF SetSubmits(c1)
           THEN /\ future' = NewFuture("set")
                /\ queue' = Submit(queue, "set")
                /\ set_call_counter' = c1
           ELSE IF future # NoFuture /\ Done(future)
           THEN /\ future' = NoFuture
                /\ set_call_counter' = 0
                /\ UNCHANGED queue
           ELSE /\ set_call_counter' = c1
                /\ UNCHANGED <<future, queue>>
        /\ raised' = "none"
        /\ UNCHANGED <<server_params, server_counts, variables, get_call_counter,
                       since_submit, gap, window, last_copy_sub>>

\* The blocking calls run the server call on the caller's thread; ok = FALSE: the
\* server call raises.
SyncFrame == UNCHANGED <<get_call_counter, set_call_counter, future, queue,
                         since_submit, gap, window, last_copy_sub>>

\* Mutant of GetAndWait: a failure of the server call is swallowed.
GetAndWait_Swallowed(ok) ==
    /\ IF ok THEN variables' = Copy(variables, Request) ELSE UNCHANGED variables
    /\ raised' = "none"
    /\ UNCHANGED <<server_params, server_counts>>
    /\ SyncFrame

\* VariableClient.get_and_wait
GetAndWait(ok) ==
    /\ IF ok THEN variables' = Copy(variables, Request) /\ raised' = "none"
       ELSE raised' = "rpc_error" /\ UNCHANGED variables
    /\ UNCHANGED <<server_params, server_counts>>
    /\ SyncFrame

\* VariableClient.get_all_and_wait
GetAllAndWait(ok) ==
    /\ IF ok THEN variables' = Copy(variables, RequestAll) /\ raised' = "none"
       ELSE raised' = "rpc_error" /\ UNCHANGED variables
    /\ UNCHANGED <<server_params, server_counts>>
    /\ SyncFrame

\* VariableClient.set_and_wait: self._adjust() on the caller's thread.
SetAndWait(ok) ==
    /\ IF ok THEN server_counts' = variables.counts /\ raised' = "none"
       ELSE raised' = "rpc_error" /\ UNCHANGED server_counts
    /\ UNCHANGED <<server_params, variables>>
    /\ SyncFrame

\* VariableClient.add_and_wait: client.add_to_variables(names, vars).
AddAndWait(ok) ==
    /\ server_counts < MaxCount
    /\ IF ok THEN server_counts' = server_counts + 1 /\ raised' = "none"
       ELSE raised' = "rpc_error" /\ UNCHANGED server_counts
    /\ UNCHANGED <<server_params, variables>>
    /\ SyncFrame

\* Mutant of LocalAssign: the server holds the assigned variable itself.
LocalAssign_Shared ==
    /\ \E v \in 0..MaxCount :
        /\ v # variables.counts
        /\ variables' = [variables EXCEPT !.counts = v]
        /\ server_counts' = v
    /\ UNCHANGED <<server_params, get_call_counter,
                   set_call_counter, future, queue, raised, since_submit, gap,
                   window, last_copy_sub>>

\* The owner of the local variables (executor or trainer) assigns one of them.
LocalAssign ==
    /\ \E v \in 0..MaxCount :
        /\ v # variables.counts
        /\ variables' = [variables EXCEPT !.counts = v]
    /\ UNCHANGED <<server_params, server_counts, get_call_counter,
                   set_call_counter, future, queue, raised, since_submit, gap,
                   window, last_copy_sub>>

\* The trainer publishes a new version of the parameters to the variable server.
ServerPublish ==
    /\ server_params < MaxVersion
    /\ server_params' = server_params + 1
    /\ UNCHANGED <<server_counts, variables, get_call_counter, set_call_counter,
                   future, queue, raised, since_submit, gap, window, last_copy_sub>>

GetAsyncCall == \E w \in {"slow", "ok", "fail"} : GetAsync(w)
WorkerStep == \E ok \in BOOLEAN : RunWorker(ok)
GetAndWaitCall == \E ok \in BOOLEAN : GetAndWait(ok)
GetAllAndWaitCall == \E ok \in BOOLEAN : GetAllAndWait(ok)
SetAndWaitCall == \E ok \in BOOLEAN : SetAndWait(ok)
AddAndWaitCall == \E ok \in BOOLEAN : AddAndWait(ok)


\* -----------------------------------------------------------------
\* Claims about the VariableClient
\* -----------------------------------------------------------------

\* C1: at most one asynchronous request is outstanding at any time: every request
\* in the worker's queue is the one the held future stands for, it is still
\* pending, and no request is outstanding when no future is held (so a request is
\* submitted only when no future is held, and the future is released only after
\* its request has completed).
C1_AtMostOneOutstanding ==
    /\ Len(queue) <= 1
    /\ queue # <<>> => queue[1].held /\ future.status = "pending"

\* C1 witness: a set request is outstanding while both periods have been reached,
\* so a get_async call met the guard with a future held and submitted nothing.
C1_Witness ==
    /\ Len(queue) = 1
    /\ future.kind = "set"
    /\ get_call_counter >= GetPeriod
    /\ set_call_counter >= SetPeriod

\* C2: the get and set schedules are independent: a get result is always copied
\* into the local variables by get_async (which resets the get counter), a set
\* result is always released by set_async (which resets the set counter), and a
\* get_async call that reaches its period submits its request whether or not a
\* set request is held.
C2_IndependentSchedules ==
    [][ /\ (future.kind = "get" /\ future.status = "done" /\ future' = NoFuture)
            => (variables'.params = future.result /\ get_call_counter' = 0)
        /\ (future.kind = "set" /\ future' = NoFuture) => set_call_counter' = 0
        /\ (GetAsyncCall /\ get_call_counter + 1 >= GetPeriod /\ future.kind # "get")
            => since_submit' = 0
      ]_vars

\* C3: two consecutive submissions by get_async are at least get_period get_async
\* calls apart.
C3_SubmissionsSpaced == gap >= GetPeriod

C5_AsyncFailureRetried ==
    [][GetAsyncCall =>
        /\ raised' # "rpc_error"
        /\ (future.status = "failed" => future'.status # "failed")]_vars

\* C6: when the server call of a blocking operation fails, the failure reaches the
\* caller and the local variables, the call counters, the pending future and the
\* server are left as they were.
C6_SyncFailurePropagates ==
    [][(GetAndWait(FALSE) \/ GetAllAndWait(FALSE) \/ SetAndWait(FALSE)
            \/ AddAndWait(FALSE))
        => /\ raised' = "rpc_error"
           /\ UNCHANGED <<variables, get_call_counter, set_call_counter, future,
                          queue, server_params, server_counts>>]_vars

\* C6 witness: a blocking call has just failed while an asynchronous request is
\* pending and the local copy is behind the server.
C6_Witness ==
    /\ raised = "rpc_error"
    /\ future.status = "pending"
    /\ variables.params < server_params
    /\ get_call_counter > 0

\* C8: a late asynchronous result never replaces local values that a blocking
\* pull has refreshed since: the local copy never goes back to an older version.
C8_LateResultDiscarded == [][variables'.params >= variables.params]_vars


\* -----------------------------------------------------------------
\* Claims about pushed values
\* -----------------------------------------------------------------

NumExecutors == 2      \* executor processes built by the builder
MaxActions == 1        \* actions an executor selects after it has been built

Executors == 1..NumExecutors


BuilderInit ==
    /\ ex_pc = [e \in Executors |-> "start"]
    /\ ex_source = [e \in Executors |-> FALSE]
    /\ ex_client = [e \in Executors |-> FALSE]
    /\ ex_pulls = [e \in Executors |-> 0]
    /\ ex_policy = [e \in Executors |-> [restored |-> FALSE, version |-> 0]]
    /\ ex_actions = [e \in Executors |-> 0]

\* Mutant of MakeExecutor: the client is created but update_and_wait is not called.
MakeExecutor_NoPull(e, src) ==
    /\ ex_pc[e] = "start"
    /\ ex_source' = [ex_source EXCEPT ![e] = src]
    /\ ex_client' = [ex_client EXCEPT ![e] = src]
    /\ ex_pc' = [ex_pc EXCEPT ![e] = "ready"]
    /\ UNCHANGED <<ex_pulls, ex_policy, ex_actions>>

\* make_executor lines 224-244: without a variable source the client stays None
\* and the call goes on to construct the executor; with one, the client is created
\* and the call blocks in update_and_wait.
MakeExecutor(e, src) ==
    /\ ex_pc[e] = "start"
    /\ ex_source' = [ex_source EXCEPT ![e] = src]
    /\ ex_client' = [ex_client EXCEPT ![e] = src]
    /\ ex_pc' = [ex_pc EXCEPT ![e] = IF src THEN "waiting" ELSE "ready"]
    /\ UNCHANGED <<ex_pulls, ex_policy, ex_actions>>

\* update_and_wait returns (line 244): the server's current parameters have been
\* copied into the policy variables; ok = FALSE: the pull raises and make_executor
\* is left without an executor.
UpdateAndWait(e, ok) ==
    /\ ex_pc[e] = "waiting"
    /\ IF ok
       THEN /\ ex_policy' = [ex_policy EXCEPT
                                ![e] = [restored |-> TRUE, version |-> server_params]]
            /\ ex_pulls' = [ex_pulls EXCEPT ![e] = @ + 1]
            /\ ex_pc' = [ex_pc EXCEPT ![e] = "ready"]
       ELSE /\ ex_pc' = [ex_pc EXCEPT ![e] = "failed"]
            /\ UNCHANGED <<ex_policy, ex_pulls>>
    /\ UNCHANGED <<ex_source, ex_client, ex_actions>>

\* make_executor lines 247-252: the executor is constructed and returned.
ConstructExecutor(e) ==
    /\ ex_pc[e] = "ready"
    /\ ex_pc' = [ex_pc EXCEPT ![e] = "built"]
    /\ UNCHANGED <<ex_source, ex_client, ex_pulls, ex_policy, ex_actions>>

\* The environment loop asks the executor it was given for an action.
SelectAction(e) ==
    /\ ex_pc[e] = "built"
    /\ ex_actions[e] < MaxActions
    /\ ex_actions' = [ex_actions EXCEPT ![e] = @ + 1]
    /\ UNCHANGED <<ex_pc, ex_source, ex_client, ex_pulls, ex_policy>>

MakeExecutorCall == \E e \in Executors, src \in BOOLEAN : MakeExecutor(e, src)
UpdateAndWaitReturn == \E e \in Executors, ok \in BOOLEAN : UpdateAndWait(e, ok)
ConstructExecutorStep == \E e \in Executors : ConstructExecutor(e)
SelectActionCall == \E e \in Executors : SelectAction(e)

\* -----------------------------------------------------------------
\* Claims about make_executor
\* -----------------------------------------------------------------

\* C7: with a variable source, make_executor has completed a blocking parameter
\* pull before the executor is constructed, so no action is selected before the
\* first pull has finished; without one, no variable client is created and no
\* pull is made.
C7_PullBeforeExecutor ==
    \A e \in Executors :
        /\ (ex_source[e] /\ (ex_pc[e] \in {"ready", "built"} \/ ex_actions[e] > 0))
            => (ex_client[e] /\ ex_pulls[e] >= 1 /\ ex_policy[e].restored)
        /\ (~ex_source[e] /\ ex_pc[e] # "start")
            => (~ex_client[e] /\ ex_pulls[e] = 0 /\ ~ex_policy[e].restored)

\* C7 witness: one executor built with a variable source has pulled a published
\* version and selected an action; another built without one has acted too.
C7_Witness ==
    \E e1, e2 \in Executors :
        /\ ex_source[e1] /\ ex_actions[e1] > 0 /\ ex_policy[e1].version >= 1
        /\ ~ex_source[e2] /\ ex_pc[e2] = "built" /\ ex_actions[e2] > 0


\* =================================================================
\* MADDPGBuilder: replay table, adder and dataset
\* =================================================================
MinReplaySize == 10       \* config.min_replay_size of an accepted ratio limiter
MaxReplaySize == 11       \* config.max_replay_size
SamplesPerInsert == 1     \* config.samples_per_insert when it is not None
SequenceLength == 2       \* config.sequence_length
BatchSize == 2            \* config.batch_size
MaxBatches == 2           \* batches the trainer takes
MaxInserts == 15          \* records the executor's adder writes

\* Executor classes a builder can be given: the two it knows and any other.
ExecutorFns == {"FeedForwardExecutor", "RecurrentExecutor", "OtherExecutor"}

Max(a, b) == IF a > b THEN a ELSE b

NoLimiter == [kind |-> "none", min_size_to_sample |-> 0, samples_per_insert |-> 0,
              error_buffer10 |-> 0]

NoTable == [status |-> "none", signature |-> "none", limiter |-> NoLimiter,
            max_size |-> 0]

NoDataset == [status |-> "none", sequence_length |-> 0]

ReplayInit ==
    /\ executor_fn \in ExecutorFns
    /\ samples_per_insert \in {0, SamplesPerInsert}
    /\ min_replay_size \in {1, MinReplaySize}
    /\ replay_table = NoTable
    /\ adder = "none"
    /\ dataset = NoDataset
    /\ items = <<>>
    /\ inserts = 0
    /\ samples = 0
    /\ last_sampled = 0
    /\ last_removed = 0
    /\ schema_errors = 0
    /\ fetched = 0
    /\ batches = 0

\* make_replay_tables lines 123-132: the signature is the one of the adder class
\* that goes with the executor class.
AdderSignature(fn) ==
    IF fn = "FeedForwardExecutor" THEN "ParallelNStepTransitionAdder"
    ELSE IF fn = "RecurrentExecutor" THEN "ParallelSequenceAdder"
    ELSE "NotImplementedError"

\* Mutant of ErrorBuffer10: a 20% tolerance.
ErrorBuffer10_Double(spi, min_size) == 2 * min_size * spi

\* make_replay_tables lines 141-142: error_buffer = min_replay_size * 0.1 *
\* samples_per_insert, here in tenths (ten times the value).
ErrorBuffer10(spi, min_size) == min_size * spi

\* Mutant of MakeLimiter: the limiter's minimum size is left at 1.
MakeLimiter_MinOne(spi, min_size) ==
    IF spi = 0
    THEN [kind |-> "MinSize", min_size_to_sample |-> 1,
          samples_per_insert |-> 1, error_buffer10 |-> 0]
    ELSE [kind |-> "SampleToInsertRatio", min_size_to_sample |-> 1,
          samples_per_insert |-> spi,
          error_buffer10 |-> ErrorBuffer10(spi, min_size)]

\* make_replay_tables lines 134-147: the rate limiter.
MakeLimiter(spi, min_size) ==
    IF spi = 0
    THEN [kind |-> "MinSize", min_size_to_sample |-> min_size,
          samples_per_insert |-> 1, error_buffer10 |-> 0]
    ELSE [kind |-> "SampleToInsertRatio", min_size_to_sample |-> min_size,
          samples_per_insert |-> spi,
          error_buffer10 |-> ErrorBuffer10(spi, min_size)]

\* The ratio limiter's constructor refuses an error buffer smaller than
\* max(1, samples_per_insert).
LimiterAccepted(l) ==
    l.kind = "SampleToInsertRatio"
        => l.error_buffer10 >= 10 * Max(1, l.samples_per_insert)

\* Mutant of TableMaxSize: the table is given less room than the limiter's minimum.
TableMaxSize_BelowMin == MinReplaySize - 1

\* make_replay_tables line 153: max_size = config.max_replay_size.
TableMaxSize == MaxReplaySize

\* Mutant of Remover: the record inserted last is removed.
Remover_Lifo(its) == Len(its)

\* make_replay_tables line 152: remover = Fifo, the position of the record an
\* overflowing insert removes.
Remover(its) == 1

\* make_replay_tables line 151: sampler = Uniform, the positions a sample may take.
Sampler(its) == 1..Len(its)

\* MADDPGBuilder.make_replay_tables
MakeReplayTables ==
    /\ replay_table.status = "none"
    /\ LET sig == AdderSignature(executor_fn)
           limiter == MakeLimiter(samples_per_insert, min_replay_size)
       IN  replay_table' =
             IF sig = "NotImplementedError"
             THEN [NoTable EXCEPT !.status = "NotImplementedError"]
             ELSE IF ~LimiterAccepted(limiter)
             THEN [NoTable EXCEPT !.status = "ValueError"]
             ELSE [status |-> "built", signature |-> sig, limiter |-> limiter,
                   max_size |-> TableMaxSize]
    /\ UNCHANGED <<executor_fn, samples_per_insert, min_replay_size, adder,
                   dataset, items, inserts, samples, last_sampled, last_removed,
                   schema_errors, fetched, batches>>

\* Mutant of AdderClass: the transition adder whatever the executor class.
AdderClass_AlwaysNStep(fn) ==
    IF fn \in {"FeedForwardExecutor", "RecurrentExecutor"}
    THEN "ParallelNStepTransitionAdder" ELSE "NotImplementedError"

\* make_adder lines 191-206: the adder class that goes with the executor class.
AdderClass(fn) ==
    IF fn = "FeedForwardExecutor" THEN "ParallelNStepTransitionAdder"
    ELSE IF fn = "RecurrentExecutor" THEN "ParallelSequenceAdder"
    ELSE "NotImplementedError"

\* MADDPGBuilder.make_adder
MakeAdder ==
    /\ adder = "none"
    /\ adder' = AdderClass(executor_fn)
    /\ UNCHANGED <<executor_fn, samples_per_insert, min_replay_size, replay_table,
                   dataset, items, inserts, samples, last_sampled, last_removed,
                   schema_errors, fetched, batches>>

\* MADDPGBuilder.make_dataset_iterator: sequence_length is config.sequence_length
\* for the RecurrentExecutor and None (0) for every other executor class.
MakeDatasetIterator ==
    /\ dataset.status = "none"
    /\ dataset' = [status |-> "built",
                   sequence_length |-> IF executor_fn = "RecurrentExecutor"
                                       THEN SequenceLength ELSE 0]
    /\ UNCHANGED <<executor_fn, samples_per_insert, min_replay_size, replay_table,
                   adder, items, inserts, samples, last_sampled, last_removed,
                   schema_errors, fetched, batches>>

\* The record family a dataset reads: sequences when sequence_length is set.
DatasetFamily(d) ==
    IF d.sequence_length = 0 THEN "ParallelNStepTransitionAdder"
    ELSE "ParallelSequenceAdder"

\* The rate limiter's test for one insert: free until the minimum size is
\* reached, then samples_per_insert * inserts - samples may not exceed
\* samples_per_insert * min_size_to_sample + error_buffer (in tenths).
CanInsert(l, ins, smp, size) ==
    \/ size + 1 <= l.min_size_to_sample
    \/ l.kind = "MinSize"
    \/ 10 * ((ins + 1) * l.samples_per_insert - smp)
          <= 10 * l.samples_per_insert * l.min_size_to_sample + l.error_buffer10

\* The rate limiter's test for one sample: refused below the minimum size, then
\* samples_per_insert * inserts - samples may not fall below
\* samples_per_insert * min_size_to_sample - error_buffer (in tenths).
CanSample(l, ins, smp, size) ==
    /\ size >= l.min_size_to_sample
    /\ \/ l.kind = "MinSize"
       \/ 10 * (ins * l.samples_per_insert - smp - 1)
             >= 10 * l.samples_per_insert * l.min_size_to_sample - l.error_buffer10

InsertAllowed == CanInsert(replay_table.limiter, inserts, samples, Len(items))
SampleAllowed == CanSample(replay_table.limiter, inserts, samples, Len(items))

\* The positions of its without position i.
Without(its, i) == [j \in 1..(Len(its) - 1) |-> IF j < i THEN its[j] ELSE its[j + 1]]

\* The executor's adder writes one record to the table.  A record of another
\* family than the table's signature is rejected; an insert into a full table
\* first removes the record the remover selects.
Insert ==
    /\ replay_table.status = "built"
    /\ adder \in {"ParallelNStepTransitionAdder", "ParallelSequenceAdder"}
    /\ inserts + schema_errors < MaxInserts
    /\ IF adder # replay_table.signature
       THEN /\ schema_errors' = schema_errors + 1
            /\ UNCHANGED <<items, inserts, last_removed>>
       ELSE /\ InsertAllowed
            /\ LET record == [key |-> inserts + 1, family |-> adder]
                   full == Len(items) >= replay_table.max_size
                   victim == Remover(items)
               IN  /\ items' = Append(IF full THEN Without(items, victim) ELSE items,
                                      record)
                   /\ last_removed' = IF full THEN items[victim].key
                                      ELSE last_removed
            /\ inserts' = inserts + 1
            /\ UNCHANGED schema_errors
    /\ UNCHANGED <<executor_fn, samples_per_insert, min_replay_size, replay_table,
                   adder, dataset, samples, last_sampled, fetched, batches>>

\* The dataset draws one sample for the batch it is filling.
Sample ==
    /\ replay_table.status = "built"
    /\ dataset.status = "built"
    /\ fetched < BatchSize
    /\ batches < MaxBatches
    /\ SampleAllowed
    /\ \E i \in Sampler(items) : last_sampled' = items[i].key
    /\ samples' = samples + 1
    /\ fetched' = fetched + 1
    /\ UNCHANGED <<executor_fn, samples_per_insert, min_replay_size, replay_table,
                   adder, dataset, items, inserts, last_removed, schema_errors,
                   batches>>

\* inputs = next(self._iterator) in the trainer's step returns a full batch.
NextBatch ==
    /\ fetched = BatchSize
    /\ fetched' = 0
    /\ batches' = batches + 1
    /\ UNCHANGED <<executor_fn, samples_per_insert, min_replay_size, replay_table,
                   adder, dataset, items, inserts, samples, last_sampled,
                   last_removed, schema_errors>>

\* The system is launched: table, adder and dataset have all been built.
Launched ==
    /\ replay_table.status = "built"
    /\ adder \in {"ParallelNStepTransitionAdder", "ParallelSequenceAdder"}
    /\ dataset.status = "built"

\* -----------------------------------------------------------------
\* Claims about the replay table, the adder and the dataset
\* -----------------------------------------------------------------

\* C13: with either limiter, no sample is served while fewer than min_replay_size
\* records have been inserted.
C13_SampleWaitsForMinSize ==
    [][samples' # samples => inserts >= min_replay_size]_vars

\* C13 witness: under the ratio limiter the first sample has been served, and the
\* configured minimum is more than one record.
C13_Witness ==
    /\ replay_table.limiter.kind = "SampleToInsertRatio"
    /\ min_replay_size > 1
    /\ samples = 1

C15_BoundedFifo ==
    [][ /\ Len(items') <= MaxReplaySize
        /\ last_removed' # last_removed
            => /\ last_removed' = items[1].key
               /\ \A i \in 1..Len(items) : items[i].key >= last_removed'
               /\ Len(items') = Len(items)
               /\ \A i \in 1..(Len(items) - 1) : items'[i] = items[i + 1]
      ]_vars

\* C15 witness: the full table has removed a record while a record sampled
\* before is still stored.
C15_Witness ==
    /\ Len(items) = MaxReplaySize
    /\ last_removed >= 2
    /\ last_sampled > last_removed

\* C16: for an executor class the builder does not know, make_replay_tables,
\* make_adder and make_dataset_iterator each raise and build nothing.
C16_UnknownExecutorRejected ==
    executor_fn = "OtherExecutor"
        => /\ replay_table.status \in {"none", "NotImplementedError"}
           /\ adder \in {"none", "NotImplementedError"}
           /\ dataset.status \in {"none", "NotImplementedError"}

\* C17: for the two executor classes the builder knows, the table signature, the
\* adder and the dataset are of the same record family (transitions and no
\* sequence_length, or sequences and sequence_length), and the table rejects no
\* record of the adder.
C17_SameRecordFamily ==
    executor_fn \in {"FeedForwardExecutor", "RecurrentExecutor"}
        => /\ replay_table.status = "built"
                => replay_table.signature = AdderSignature(executor_fn)
           /\ adder # "none" => adder = AdderSignature(executor_fn)
           /\ dataset.status # "none"
                => /\ dataset.status = "built"
                   /\ DatasetFamily(dataset) = AdderSignature(executor_fn)
                   /\ (dataset.sequence_length # 0) = (executor_fn = "RecurrentExecutor")
           /\ schema_errors = 0
           /\ \A i \in 1..Len(items) : items[i].family = replay_table.signature

\* C17 witness: a recurrent system has written sequences to its table and the
\* dataset has read one.
C17_Witness ==
    /\ executor_fn = "RecurrentExecutor"
    /\ Launched
    /\ inserts >= 1
    /\ samples >= 1

MaxEpisodeLength == 4     \* timesteps of an episode
MaxSequenceLength == 3    \* values of config.sequence_length
MaxPeriod == 3            \* values of config.period

AdderInit ==
    /\ cfg_sequence_length \in 1..MaxSequenceLength
    /\ cfg_period \in 1..MaxPeriod
    /\ episode_length \in 1..MaxEpisodeLength
    /\ episode_steps = 0
    /\ window_start = 0
    /\ records = <<>>
    /\ episode_over = FALSE

\* Mutant of AdderSequenceLength: make_adder passes the period as the length.
AdderSequenceLength_Period == cfg_period

\* make_adder line 202: sequence_length = config.sequence_length
AdderSequenceLength == cfg_sequence_length

\* make_adder line 203: period = config.period
AdderPeriod == cfg_period

\* A record of the adder's sequence_length timesteps whose first real ones are
\* steps of the episode and whose others are zero padding.
Window(offset, real) ==
    [offset |-> offset,
     filled |-> [i \in 1..AdderSequenceLength |-> i <= real]]

\* adder.add: one more timestep; a window that now holds sequence_length steps
\* is emitted and the next window starts period steps later.
AdderAdd ==
    /\ ~episode_over
    /\ episode_steps < episode_length
    /\ episode_steps' = episode_steps + 1
    /\ IF episode_steps + 1 - window_start = AdderSequenceLength
       THEN /\ records' = Append(records, Window(window_start, AdderSequenceLength))
            /\ window_start' = window_start + AdderPeriod
       ELSE UNCHANGED <<records, window_start>>
    /\ UNCHANGED <<cfg_sequence_length, cfg_period, episode_length, episode_over>>

\* The last timestep of the episode has been written: the window being filled is
\* zero-padded and emitted if it holds a real step, and dropped otherwise.
AdderEndEpisode ==
    /\ ~episode_over
    /\ episode_steps = episode_length
    /\ episode_over' = TRUE
    /\ LET real == episode_steps - window_start IN
        records' = IF real >= 1 THEN Append(records, Window(window_start, real))
                   ELSE records
    /\ UNCHANGED <<cfg_sequence_length, cfg_period, episode_length, episode_steps,
                   window_start>>

\* Number of true entries of a filled mask.
RECURSIVE TrueCount(_)
TrueCount(mask) ==
    IF mask = <<>> THEN 0
    ELSE (IF Head(mask) THEN 1 ELSE 0) + TrueCount(Tail(mask))

\* -----------------------------------------------------------------
\* Claims about the sequence adder
\* -----------------------------------------------------------------

\* C18: every record the sequence adder emits has exactly sequence_length
\* timesteps; the filled mask of the window starting at offset has
\* min(sequence_length, L - offset) true entries (sequence_length for a full
\* window), and no record has zero true entries.
C18_SequencePadding ==
    \A i \in 1..Len(records) :
        /\ Len(records[i].filled) = cfg_sequence_length
        /\ TrueCount(records[i].filled)
              = Min(cfg_sequence_length, episode_length - records[i].offset)
        /\ TrueCount(records[i].filled) >= 1

\* C18 witness: an episode has ended with a full window and a padded final window.
C18_Witness ==
    /\ episode_over
    /\ Len(records) >= 2
    /\ TrueCount(records[1].filled) = cfg_sequence_length
    /\ TrueCount(records[Len(records)].filled) < cfg_sequence_length
    /\ cfg_period # cfg_sequence_length

\* =================================================================
\* The epsilon-greedy action selector of make_default_networks
\* =================================================================
NumActions == 3           \* actions of an agent
MaxQ == 1                 \* Q-values range over -MaxQ..MaxQ

Actions == 1..NumActions

SelectorInit ==
    /\ q_values \in [Actions -> (0 - MaxQ)..MaxQ]
    /\ legal_actions \in {m \in [Actions -> BOOLEAN] : \E a \in Actions : m[a]}
    /\ epsilon = 0
    /\ action = 0

\* epsilon_greedy_action_selector: with probability epsilon an action drawn
\* uniformly among the legal ones, else an argmax of the Q-values with the illegal
\* actions masked out.  The result is the set of actions that may be returned.
EpsilonGreedyActionSelector(action_values, legal_actions_mask, eps) ==
    LET legal == {a \in Actions : legal_actions_mask[a]}
        greedy == {a \in legal : \A b \in legal : action_values[a] >= action_values[b]}
    IN  (IF eps > 0 THEN legal ELSE {}) \cup (IF eps < 10 THEN greedy ELSE {})

\* Mutant of ActionSelectorFn: the selector is called without the mask.
ActionSelectorFn_NoMask(q, legal, eps) ==
    EpsilonGreedyActionSelector(q, [a \in Actions |-> TRUE], eps)

\* make_default_networks.action_selector_fn (lines 58-65)
ActionSelectorFn(q, legal, eps) ==
    EpsilonGreedyActionSelector(q, legal, eps)

\* The executor selects an action for one agent.
SelectorCall ==
    /\ \E eps \in {0, 5, 10} :
        /\ epsilon' = eps
        /\ action' \in ActionSelectorFn(q_values, legal_actions, eps)
    /\ UNCHANGED <<q_values, legal_actions>>

\* -----------------------------------------------------------------
\* Claims about the action selector
\* -----------------------------------------------------------------

\* C19: the action selected is always legal; with epsilon = 0 it has the largest
\* Q-value among the legal actions, and with epsilon = 1 it is a legal action.
C19_SelectedActionLegal ==
    action # 0
        => /\ legal_actions[action]
           /\ epsilon = 0
                => \A b \in Actions :
                     legal_actions[b] => q_values[action] >= q_values[b]

\* C19 witness: with epsilon = 0 the action returned has a smaller Q-value than an
\* illegal action.
C19_Witness ==
    /\ action # 0
    /\ epsilon = 0
    /\ \E b \in Actions : ~legal_actions[b] /\ q_values[b] > q_values[action]

\* =================================================================
\* MADQNTrainer / MADQNRecurrentTrainer
\* =================================================================
TargetUpdatePeriod == 2   \* target_update_period given to the trainer
MaxSteps == 5             \* trainer steps taken
MaxParam == 1             \* parameter values 0..MaxParam of a network
MaxKey == 2               \* keys 1..MaxKey of the records in the replay table

\* self.unique_net_keys, in sorted order.
unique_net_keys == <<"network_0", "network_1">>
NetKeys == {unique_net_keys[i] : i \in 1..Len(unique_net_keys)}
Params == 0..MaxParam

\* The key sets a sampled batch can have (inputs.info.key).
Batches == SUBSET (1..MaxKey) \ {{}}

\* Mutant of DoubleQLearning: the flag is switched on.
DoubleQLearning_Enabled == "True"

\* MADQNRecurrentTrainer.__init__ line 599: self._double_q_learning = False.
DoubleQLearning == "False"

\* Mutant of Constructs: the constructor does not look at the replay client.
Constructs_NoAssert(exponent, client) == TRUE

\* MADQNTrainer.__init__ lines 155-156: with an importance sampling exponent the
\* replay client must be a reverb.Client, or the constructor raises AssertionError.
Constructs(exponent, client) == exponent # "None" => client = "Client"

\* The arguments a trainer constructor is called with, and the fields as the
\* constructor sets them.  MADQNRecurrentTrainer.__init__ takes neither an
\* importance sampling exponent nor a replay client.
TrainerInit ==
    /\ trainer_fn \in {"MADQNTrainer", "MADQNRecurrentTrainer"}
    /\ importance_sampling_exponent \in
            IF trainer_fn = "MADQNTrainer" THEN {"None", "set"} ELSE {"None"}
    /\ replay_client \in
            IF trainer_fn = "MADQNTrainer" THEN {"None", "Client", "TFClient"}
            ELSE {"None"}
    /\ priority_updates = 0
    /\ mixing_type \in IF trainer_fn = "MADQNRecurrentTrainer"
                       THEN {"none", "AdditiveMixingNetwork", "MonotonicMixingNetwork"}
                       ELSE {"none"}
    /\ q_networks \in [NetKeys -> Params]
    /\ target_q_networks \in [NetKeys -> Params]
    /\ mixing_network = 0
    /\ target_mixing_network = 0
    /\ num_steps = 0
    /\ t_pc = "new"
    /\ steps_done = 0
    /\ returned = [k \in NetKeys |-> None]
    /\ inputs_keys = {}
    /\ sample_keys = {}
    /\ mutated_keys = {}
    /\ applied = {}
    /\ double_q_learning = "None"
    /\ target_rule = "none"

\* The constructor returns the trainer, or raises at line 156.
Construct ==
    /\ t_pc = "new"
    /\ t_pc' = IF Constructs(importance_sampling_exponent, replay_client)
               THEN "idle" ELSE "assertion_error"
    /\ double_q_learning' = IF trainer_fn = "MADQNRecurrentTrainer"
                            THEN DoubleQLearning ELSE "None"
    /\ UNCHANGED <<trainer_fn, mixing_type, q_networks, target_q_networks,
                   mixing_network, target_mixing_network, num_steps, steps_done,
                   importance_sampling_exponent, replay_client, priority_updates,
                   returned, inputs_keys, sample_keys, mutated_keys, applied,
                   target_rule>>

\* Mutant of SyncDue: the step counter is tested after its increment.
SyncDue_AfterIncrement(n) == (n + 1) % TargetUpdatePeriod = 0

\* _update_target_networks line 229 / 692: the test that guards the hard update.
SyncDue(n) == n % TargetUpdatePeriod = 0

\* _update_target_networks lines 696-699: the test that guards the mixing update.
MixingSync ==
    trainer_fn = "MADQNRecurrentTrainer" /\ mixing_type = "MonotonicMixingNetwork"

\* MADQNTrainer._update_target_networks / MADQNRecurrentTrainer._update_target_networks,
\* the first statement of _step.
UpdateTargetNetworks ==
    /\ t_pc = "idle"
    /\ num_steps < MaxSteps
    /\ target_q_networks' =
        [k \in NetKeys |-> IF SyncDue(num_steps) THEN q_networks[k]
                           ELSE target_q_networks[k]]
    /\ target_mixing_network' =
        IF MixingSync THEN mixing_network ELSE target_mixing_network
    /\ num_steps' = num_steps + 1
    /\ t_pc' = "synced"
    /\ UNCHANGED <<trainer_fn, mixing_type, q_networks, mixing_network, steps_done,
                   importance_sampling_exponent, replay_client, priority_updates,
                   stepVars>>

\* Mutant of SampleBatch: the batch is taken before the target networks are looked at.
SampleBatch_BeforeSync ==
    /\ t_pc = "idle"
    /\ num_steps < MaxSteps
    /\ \E b \in Batches : inputs_keys' = b
    /\ num_steps' = num_steps + 1
    /\ t_pc' = "sampled"
    /\ UNCHANGED <<trainer_fn, mixing_type, q_networks, target_q_networks,
                   mixing_network, target_mixing_network, steps_done,
                   importance_sampling_exponent, replay_client, priority_updates,
                   returned, sample_keys, mutated_keys, applied,
                   double_q_learning, target_rule>>

\* inputs = next(self._iterator)
SampleBatch ==
    /\ t_pc = "synced"
    /\ \E b \in Batches : inputs_keys' = b
    /\ t_pc' = "sampled"
    /\ UNCHANGED <<trainer_fn, mixing_type, q_networks, target_q_networks,
                   mixing_network, target_mixing_network, num_steps, steps_done,
                   importance_sampling_exponent, replay_client, priority_updates,
                   returned, sample_keys, mutated_keys, applied,
                   double_q_learning, target_rule>>

\* How _forward takes the target Q-value of the next timestep: MADQNTrainer line
\* 427 always through trfl.double_qlearning, MADQNRecurrentTrainer lines 827-834 by
\* its flag, the maximum over the legal-masked target Q-values when it is off.
TargetRule ==
    IF trainer_fn = "MADQNTrainer" THEN "double_qlearning"
    ELSE IF double_q_learning = "True" THEN "double_q_selection"
    ELSE "reduce_max"

\* Mutant of Forward: the keys of the inputs are not stored.
Forward_KeysNotStored ==
    /\ t_pc = "sampled"
    /\ target_rule' = TargetRule
    /\ t_pc' = "forwarded"
    /\ UNCHANGED <<trainer_fn, mixing_type, q_networks, target_q_networks,
                   mixing_network, target_mixing_network, num_steps, steps_done,
                   importance_sampling_exponent, replay_client, priority_updates,
                   returned, inputs_keys, sample_keys, mutated_keys, applied,
                   double_q_learning>>

\* self._forward(inputs).  MADQNTrainer._forward stores the keys of its inputs
\* (lines 364, 463); MADQNRecurrentTrainer._forward stores none.
Forward ==
    /\ t_pc = "sampled"
    /\ sample_keys' = IF trainer_fn = "MADQNTrainer" THEN inputs_keys
                      ELSE sample_keys
    /\ target_rule' = TargetRule
    /\ t_pc' = "forwarded"
    /\ UNCHANGED <<trainer_fn, mixing_type, q_networks, target_q_networks,
                   mixing_network, target_mixing_network, num_steps, steps_done,
                   importance_sampling_exponent, replay_client, priority_updates,
                   returned, inputs_keys, mutated_keys, applied,
                   double_q_learning>>

\* The network keys whose variables _backward hands to an optimizer: every agent's
\* key in MADQNTrainer, the first network only in MADQNRecurrentTrainer.
UpdatedKeys ==
    IF trainer_fn = "MADQNRecurrentTrainer" THEN {unique_net_keys[1]} ELSE NetKeys

\* self._backward(): the gradient step moves the online parameters.
Backward ==
    /\ t_pc = "forwarded"
    /\ \E new \in [NetKeys -> Params] :
        /\ \A k \in NetKeys \ UpdatedKeys : new[k] = q_networks[k]
        /\ q_networks' = new
    /\ IF MixingSync
       THEN \E m \in Params : mixing_network' = m
       ELSE UNCHANGED mixing_network
    /\ applied' = UpdatedKeys
    /\ t_pc' = "trained"
    /\ UNCHANGED <<trainer_fn, mixing_type, target_q_networks,
                   target_mixing_network, num_steps, steps_done,
                   importance_sampling_exponent, replay_client, priority_updates,
                   returned, inputs_keys, sample_keys, mutated_keys,
                   double_q_learning, target_rule>>

\* MADQNTrainer._step line 349: the step hands the sample keys and priorities to
\* _update_sample_priorities.  MADQNRecurrentTrainer._step has no such statement.
StepUpdatesPriorities ==
    trainer_fn = "MADQNTrainer" /\ importance_sampling_exponent # "None"

\* _update_sample_priorities lines 253-256: the test that guards mutate_priorities.
MutatesPriorities ==
    importance_sampling_exponent # "None" /\ replay_client # "None"

\* Mutant of UpdateSamplePriorities: priorities are pushed whenever a replay client
\* was supplied.
UpdateSamplePriorities_ClientOnly ==
    /\ t_pc = "trained"
    /\ priority_updates' = IF replay_client # "None"
                           THEN priority_updates + 1 ELSE priority_updates
    /\ mutated_keys' = IF replay_client # "None" THEN sample_keys ELSE mutated_keys
    /\ t_pc' = "idle"
    /\ steps_done' = steps_done + 1
    /\ UNCHANGED <<trainer_fn, mixing_type, q_networks, target_q_networks,
                   mixing_network, target_mixing_network, num_steps,
                   importance_sampling_exponent, replay_client,
                   returned, inputs_keys, sample_keys, applied,
                   double_q_learning, target_rule>>

\* The end of _step (MADQNTrainer lines 346-353): maybe update the priorities, then
\* return the losses.
UpdateSamplePriorities ==
    /\ t_pc = "trained"
    /\ priority_updates' = IF StepUpdatesPriorities /\ MutatesPriorities
                           THEN priority_updates + 1 ELSE priority_updates
    /\ mutated_keys' = IF StepUpdatesPriorities /\ MutatesPriorities
                       THEN sample_keys ELSE mutated_keys
    /\ t_pc' = "idle"
    /\ steps_done' = steps_done + 1
    /\ UNCHANGED <<trainer_fn, mixing_type, q_networks, target_q_networks,
                   mixing_network, target_mixing_network, num_steps,
                   importance_sampling_exponent, replay_client,
                   returned, inputs_keys, sample_keys, applied,
                   double_q_learning, target_rule>>

\* MADQNTrainer.__init__ lines 169-181 (MADQNRecurrentTrainer.__init__ 636-647):
\* the network whose variables are stored under "q_network" in
\* self._system_network_variables is self._target_q_networks[agent_key].
QNetworkToExpose(k) == target_q_networks[k]

\* MADQNTrainer.get_variables(["q_network"]): the stored variables of every network
\* key, converted to numpy arrays inside the call.
GetVariables ==
    /\ t_pc = "idle"
    /\ returned' = [k \in NetKeys |-> QNetworkToExpose(k)]
    /\ UNCHANGED <<trainer_fn, mixing_type, q_networks, target_q_networks,
                   mixing_network, target_mixing_network, num_steps, t_pc,
                   steps_done, importance_sampling_exponent, replay_client,
                   priority_updates, inputs_keys, sample_keys, mutated_keys,
                   applied, double_q_learning, target_rule>>

\* -----------------------------------------------------------------
\* Claims about the target networks
\* -----------------------------------------------------------------

\* C9: the target Q-network parameters are overwritten with the online ones at the
\* start of a trainer step exactly when the number of completed steps is divisible
\* by target_update_period, and are unchanged by everything else.
C9_TargetSyncPeriodic ==
    [][ /\ (t_pc = "idle" /\ t_pc' # "idle")
            => target_q_networks' =
                IF steps_done % TargetUpdatePeriod = 0 THEN q_networks
                ELSE target_q_networks
        /\ (t_pc # "idle") => target_q_networks' = target_q_networks
      ]_vars

\* C9 witness: a step that started after an odd number of completed steps, later
\* than a periodic sync, has left a target network behind its online network.
C9_Witness ==
    /\ steps_done = TargetUpdatePeriod + 1
    /\ t_pc = "synced"
    /\ \E k \in NetKeys : target_q_networks[k] # q_networks[k]

\* C10: the target mixing network is assigned only at a trainer step whose step
\* count is divisible by target_update_period.
C10_TargetMixingPeriodic ==
    [][target_mixing_network' # target_mixing_network
        => (t_pc = "idle" /\ steps_done % TargetUpdatePeriod = 0)]_vars

\* -----------------------------------------------------------------
\* Claims about the priority update
\* -----------------------------------------------------------------

\* C11: with importance sampling disabled (the exponent is None) no trainer step
\* ever calls mutate_priorities, whether or not a replay client was supplied.
C11_NoMutationWithoutImportanceSampling ==
    [][importance_sampling_exponent = "None"
        => priority_updates' = priority_updates]_vars

\* C11 witness: a MADQNTrainer built with a replay client and no exponent has
\* completed several steps.
C11_Witness ==
    /\ trainer_fn = "MADQNTrainer"
    /\ importance_sampling_exponent = "None"
    /\ replay_client = "Client"
    /\ steps_done >= 2
    /\ priority_updates = 0

\* C12: importance sampling without a replay client fails at construction: no
\* trainer built with an exponent and no replay client ever takes a step, and every
\* step that completes with importance sampling enabled pushes the priorities.
C12_MissingClientFailsAtConstruction ==
    [][ /\ (importance_sampling_exponent # "None" /\ replay_client = "None")
            => (t_pc \in {"new", "assertion_error"} /\ t_pc' = "assertion_error")
        /\ (importance_sampling_exponent # "None" /\ t_pc = "trained"
                /\ t_pc' = "idle")
            => priority_updates' = priority_updates + 1
      ]_vars

\* C12 witness: a constructor call with an exponent and no replay client has
\* raised, and the trainer it did not build has taken no step.
C12_Witness ==
    /\ t_pc = "assertion_error"
    /\ importance_sampling_exponent # "None"
    /\ replay_client = "None"
    /\ steps_done = 0

\* -----------------------------------------------------------------
\* Claims about the trainer step and the exposed variables
\* -----------------------------------------------------------------

\* C22: after any trainer step, get_variables(["q_network"]) returns the online
\* Q-network parameters as that step's gradient update left them.
C22_ExposedIsOnline ==
    [][ (t_pc = "idle" /\ t_pc' = "idle" /\ steps_done >= 1)
        => returned' = q_networks ]_vars

\* The order of the stages of a trainer step.
StageOrder ==
    {<<"new", "idle">>, <<"new", "assertion_error">>, <<"idle", "synced">>,
     <<"synced", "sampled">>, <<"sampled", "forwarded">>,
     <<"forwarded", "trained">>, <<"trained", "idle">>}

\* C24: the stages of a trainer step run in the order target-sync check, sample,
\* forward, backward, priority update; the online parameters change in the backward
\* pass only, so the forward pass of a sync step sees target parameters equal to the
\* online parameters the previous step's gradient update left; and the step counter
\* goes up exactly once per step.
C24_StagesInOrder ==
    [][ /\ t_pc' # t_pc => <<t_pc, t_pc'>> \in StageOrder
        /\ q_networks' # q_networks => (t_pc = "forwarded" /\ t_pc' = "trained")
        /\ (t_pc = "sampled" /\ t_pc' = "forwarded" /\ SyncDue(num_steps - 1))
           => target_q_networks = q_networks
        /\ num_steps' = IF t_pc = "idle" /\ t_pc' = "synced" THEN num_steps + 1
                        ELSE num_steps
        /\ steps_done' # steps_done => num_steps' = steps_done'
      ]_vars

\* C24 witness: the forward pass of a later sync step of a MADQNTrainer has run.
C24_Witness ==
    /\ trainer_fn = "MADQNTrainer"
    /\ t_pc = "forwarded"
    /\ steps_done = TargetUpdatePeriod
    /\ SyncDue(num_steps - 1)

\* C25: with importance sampling on, every MADQNTrainer step makes exactly one
\* mutate_priorities call, as its last stage after the backward pass, and the keys
\* of the call are the keys of the batch that step sampled.
C25_PrioritiesOfThisBatch ==
    /\ [](  (trainer_fn = "MADQNTrainer" /\ importance_sampling_exponent # "None")
            => priority_updates = steps_done )
    /\ [][ (trainer_fn = "MADQNTrainer" /\ importance_sampling_exponent # "None")
           => /\ (t_pc = "trained" /\ t_pc' = "idle")
                    => /\ priority_updates' = priority_updates + 1
                       /\ mutated_keys' = inputs_keys
              /\ (priority_updates' # priority_updates \/ mutated_keys' # mutated_keys)
                    => (t_pc = "trained" /\ t_pc' = "idle")
         ]_vars

\* C25 witness: a MADQNTrainer with importance sampling has finished its second
\* step and has pushed the priorities of that step's batch.
C25_Witness ==
    /\ trainer_fn = "MADQNTrainer"
    /\ importance_sampling_exponent # "None"
    /\ t_pc = "idle"
    /\ steps_done = 2
    /\ priority_updates = 2
    /\ mutated_keys = inputs_keys

\* C27: every trainer step applies a gradient update to the online network of
\* every network key through that key's optimizer.
C27_EveryKeyUpdated == t_pc = "trained" => applied = NetKeys

\* C28: in a constructed MADQNRecurrentTrainer the double-Q-learning flag is False
\* in every state, and every forward pass takes the target as the maximum over the
\* legal-masked target Q-values, never through the double-Q selection.
C28_DoubleQDisabled ==
    trainer_fn = "MADQNRecurrentTrainer"
    => /\ t_pc # "new" => double_q_learning = "False"
       /\ target_rule \in {"none", "reduce_max"}

\* C28 witness: a MADQNRecurrentTrainer has run the forward pass of its second step.
C28_Witness ==
    /\ trainer_fn = "MADQNRecurrentTrainer"
    /\ t_pc = "forwarded"
    /\ steps_done = 1
    /\ target_rule = "reduce_max"

\* =================================================================
\* MADQNRecurrentTrainer._forward: the masked loss
\* =================================================================
MaskBatch == 3            \* B: sequences in a batch
MaskLength == 3           \* T: timesteps of a sequence
NumAgents == 2            \* A: agents of the system

\* The filled mask of a sequence whose first n timesteps are real.
PrefixMask(n) == [t \in 1..MaskLength |-> IF t <= n THEN 1 ELSE 0]

\* The inputs of a forward pass: a batch of sequences as the sequence adder writes
\* them, real timesteps first and padding after.
LossInit ==
    /\ zero_padding_mask \in
         {[b \in 1..MaskBatch |-> PrefixMask(len[b])] :
              len \in [1..MaskBatch -> 1..MaskLength]}
    /\ mixed \in BOOLEAN
    /\ loss_terms = 0
    /\ loss_denominator = 0
    /\ loss_pc = "inputs"

RECURSIVE SumOver(_, _)
SumOver(f, S) ==
    IF S = {} THEN 0
    ELSE LET x == CHOOSE y \in S : TRUE IN f[x] + SumOver(f, S \ {x})

\* tf.reduce_sum of the mask over the batch and the timesteps ts.
ReduceSum(m, ts) ==
    SumOver([q \in (1..MaskBatch) \X ts |-> m[q[1]][q[2]]], (1..MaskBatch) \X ts)

\* Size of the last axis of td_error: the mixing networks reduce the agents to one
\* value (lines 847-861), without them there is one value per agent (lines 839-844).
TdWidth == IF mixed THEN 1 ELSE NumAgents

\* Line 887: td_error has the timesteps 1..T-1 and is multiplied by
\* zero_padding_mask[:-1]; the terms the mask keeps.
MaskedTerms(m) == TdWidth * ReduceSum(m, 1..(MaskLength - 1))

\* Lines 889-891: the loss is divided by tf.reduce_sum(zero_padding_mask), the mask
\* of all T timesteps.
LossDenominator(m) == ReduceSum(m, 1..MaskLength)

\* MADQNRecurrentTrainer._forward, lines 874-891.
RecurrentForward ==
    /\ loss_pc = "inputs"
    /\ loss_terms' = MaskedTerms(zero_padding_mask)
    /\ loss_denominator' = LossDenominator(zero_padding_mask)
    /\ loss_pc' = "done"
    /\ UNCHANGED <<zero_padding_mask, mixed>>

\* C26: the denominator of the masked loss is the number of TD-error terms, over
\* the T-1 transition timesteps, whose timestep is filled: no padded timestep and no
\* timestep without a TD-error term is counted.
C26_DenominatorCountsTerms ==
    loss_pc = "done"
    => loss_denominator =
         Cardinality({q \in (1..MaskBatch) \X (1..(MaskLength - 1))
                               \X (1..(IF mixed THEN 1 ELSE NumAgents)) :
                         zero_padding_mask[q[1]][q[2]] = 1})

\* =================================================================
\* System: the builder operations and their hooks
\* =================================================================

\* The groups of the components argument, in the order of the dictionary, and the
\* components a group can hold, in the order of the group's dictionary.
Groups == <<"building", "execution">>
Pool == <<"TableComponent", "EvalLoopComponent", "TrainerComponent">>

GroupSet == {Groups[i] : i \in 1..Len(Groups)}
PoolSet == {Pool[i] : i \in 1..Len(Pool)}

InGroup(g, c) == c \in components[g]

\* The values of one group's dictionary.
GroupComponents(g) == SelectSeq(Pool, LAMBDA c : InGroup(g, c))

\* The constructor's arguments, before __init__ has run.  tables and trainer name
\* methods of the class until a callback assigns an instance attribute.
SystemNew ==
    /\ components \in [GroupSet -> SUBSET PoolSet]
    /\ callbacks = <<>>
    /\ sys_op = "none"
    /\ sys_stage = 0
    /\ fired = <<>>
    /\ attrs = [tables |-> "method", eval_loop |-> "unset", trainer |-> "method"]
    /\ sys_result = "none"

\* Mutant of Stages: tables() builds the tables before the signature and the limiter.
Stages_TablesFirst(op) ==
    CASE op = "init" ->
            <<"on_building_init_start", "on_building_init", "on_building_init_end">>
      [] op = "tables" ->
            <<"on_building_tables_start", "on_building_tables",
              "on_building_tables_adder_signature",
              "on_building_tables_rate_limiter", "on_building_tables_end">>
      [] op = "evaluator" ->
            <<"on_building_evaluator_start", "on_building_evaluator_logger",
              "on_building_evaluator", "on_building_evaluator_eval_loop",
              "on_building_evaluator_end">>
      [] op = "trainer" ->
            <<"on_building_evaluator_start", "on_building_evaluator_logger",
              "on_building_evaluator", "on_building_evaluator_eval_loop",
              "on_building_evaluator_end">>

\* The hooks an operation calls, in the order of its statements: __init__ lines
\* 57-61, tables lines 75-87, evaluator lines 234-242, trainer lines 264-272.
Stages(op) ==
    CASE op = "init" ->
            <<"on_building_init_start", "on_building_init", "on_building_init_end">>
      [] op = "tables" ->
            <<"on_building_tables_start", "on_building_tables_adder_signature",
              "on_building_tables_rate_limiter", "on_building_tables",
              "on_building_tables_end">>
      [] op = "evaluator" ->
            <<"on_building_evaluator_start", "on_building_evaluator_logger",
              "on_building_evaluator", "on_building_evaluator_eval_loop",
              "on_building_evaluator_end">>
      [] op = "trainer" ->
            <<"on_building_evaluator_start", "on_building_evaluator_logger",
              "on_building_evaluator", "on_building_evaluator_eval_loop",
              "on_building_evaluator_end">>

\* System.__init__ lines 49-55: every component of every group becomes a callback.
SystemConstruct ==
    /\ sys_op = "none"
    /\ callbacks' = GroupComponents(Groups[1]) \o GroupComponents(Groups[2])
    /\ sys_op' = "init"
    /\ sys_stage' = 1
    /\ UNCHANGED <<components, fired, attrs, sys_result>>

\* A call of tables(), evaluator(...) or trainer(...) on the constructed system.
\* The names tables and trainer reach the methods only while no callback has
\* assigned the instance attribute of that name.
SystemCall(op) ==
    /\ sys_op # "none"
    /\ sys_stage = 0
    /\ op = "tables" => attrs.tables = "method"
    /\ op = "trainer" => attrs.trainer = "method"
    /\ sys_op' = op
    /\ sys_stage' = 1
    /\ fired' = <<>>
    /\ sys_result' = "none"
    /\ UNCHANGED <<components, callbacks, attrs>>

\* What the components do when a hook reaches them: the component that builds an
\* object assigns it to the attribute the operation returns.
HookEffect(h, a) ==
    LET has(c) == \E i \in 1..Len(callbacks) : callbacks[i] = c IN
    [tables |-> IF h = "on_building_tables" /\ has("TableComponent")
                THEN "built" ELSE a.tables,
     eval_loop |-> IF h = "on_building_evaluator_eval_loop" /\ has("EvalLoopComponent")
                   THEN "built" ELSE a.eval_loop,
     trainer |-> IF h = "on_building_trainer" /\ has("TrainerComponent")
                 THEN "built" ELSE a.trainer]

\* self.on_building_X(self): the hook is called on every callback, in the order of
\* self.callbacks.
FireStage ==
    /\ sys_stage >= 1
    /\ sys_stage <= Len(Stages(sys_op))
    /\ LET h == Stages(sys_op)[sys_stage] IN
        /\ fired' = fired \o [i \in 1..Len(callbacks) |->
                                 [hook |-> h, callback |-> callbacks[i]]]
        /\ attrs' = HookEffect(h, attrs)
    /\ sys_stage' = sys_stage + 1
    /\ UNCHANGED <<components, callbacks, sys_op, sys_result>>

\* The attribute an operation returns: lines 89, 244, 274.
Returned(op) ==
    CASE op = "init" -> "System"
      [] op = "tables" -> attrs.tables
      [] op = "evaluator" ->
            IF attrs.eval_loop = "unset" THEN "AttributeError" ELSE attrs.eval_loop
      [] op = "trainer" -> attrs.trainer

\* The return statement of the operation.
SystemReturn ==
    /\ sys_op # "none"
    /\ sys_stage = Len(Stages(sys_op)) + 1
    /\ sys_result' = Returned(sys_op)
    /\ sys_stage' = 0
    /\ UNCHANGED <<components, callbacks, sys_op, fired, attrs>>

SystemCallAny == \E op \in {"tables", "evaluator", "trainer"} : SystemCall(op)

\* The hook calls of a pipeline of stages over the callbacks cbs, stage by stage.
Pipeline(stages, cbs) ==
    [i \in 1..(Len(stages) * Len(cbs)) |->
        [hook |-> stages[((i - 1) \div Len(cbs)) + 1],
         callback |-> cbs[((i - 1) % Len(cbs)) + 1]]]

IsPrefix(a, b) == Len(a) <= Len(b) /\ a = SubSeq(b, 1, Len(a))

\* C29: a builder operation fires its hooks as a fixed pipeline, every stage once
\* per call and on every registered callback: tables() fires start, adder
\* signature, rate limiter, tables, end in that order, and the constructor fires
\* init_start, init, init_end once every component of every group is a callback.
C29_HooksInPipelineOrder ==
    LET tables_pipeline ==
            Pipeline(<<"on_building_tables_start",
                       "on_building_tables_adder_signature",
                       "on_building_tables_rate_limiter", "on_building_tables",
                       "on_building_tables_end">>, callbacks)
        init_pipeline ==
            Pipeline(<<"on_building_init_start", "on_building_init",
                       "on_building_init_end">>, callbacks)
    IN  /\ sys_op # "none"
            => /\ \A g \in GroupSet : \A c \in components[g] :
                     \E i \in 1..Len(callbacks) : callbacks[i] = c
               /\ Len(callbacks) = Cardinality(components["building"])
                                     + Cardinality(components["execution"])
        /\ sys_op = "tables"
            => /\ IsPrefix(fired, tables_pipeline)
               /\ sys_stage = 0 => fired = tables_pipeline
        /\ sys_op = "init"
            => /\ IsPrefix(fired, init_pipeline)
               /\ sys_stage = 0 => fired = init_pipeline

\* C29 witness: tables() has returned on a system with at least two callbacks, one
\* of them the component that builds the tables.
C29_Witness ==
    /\ sys_op = "tables"
    /\ sys_stage = 0
    /\ Len(callbacks) >= 2
    /\ Len(fired) = 5 * Len(callbacks)
    /\ sys_result = "built"

\* C30: trainer(...) fires no evaluator-building hook, and returns the trainer its
\* own stages built.
C30_TrainerStagesOnly ==
    sys_op = "trainer"
    => /\ \A i \in 1..Len(fired) :
            fired[i].hook \notin
                {"on_building_evaluator_start", "on_building_evaluator_logger",
                 "on_building_evaluator", "on_building_evaluator_eval_loop",
                 "on_building_evaluator_end"}
       /\ sys_stage = 0 => sys_result = "built"

\* =================================================================
\* OnlineObserver
\* =================================================================
MaxEvents == 5            \* observe_first / observe calls made on the executor

\* The executor has an adder or, as an evaluator, none.  Nothing in the classes
\* Observer and OnlineObserver assigns the observer's own attribute _adder: it is
\* unset, or whatever the base class Callback gives it.
ObserverInit ==
    /\ executor_adder \in {"None", "Adder"}
    /\ observer_adder \in {"unset", "None", "Adder"}
    /\ observe_events = <<>>
    /\ adder_calls = <<>>
    /\ observe_raised = "none"

\* OnlineObserver.on_execution_observe_first / on_execution_observe, lines 41-47:
\* the handler reads self._adder, the attribute of the observer, and calls
\* add_first / add on it when it is truthy.  The executor argument is not used.
OnlineObserverHook(call) ==
    IF observer_adder = "unset"
    THEN /\ observe_raised' = "AttributeError"
         /\ UNCHANGED adder_calls
    ELSE /\ observe_raised' = "none"
         /\ adder_calls' = IF observer_adder # "None"
                           THEN Append(adder_calls, call) ELSE adder_calls

\* executor.observe_first(timestep, extras): the hook reaches the observer.
ObserveFirst ==
    /\ observe_raised = "none"
    /\ Len(observe_events) < MaxEvents
    /\ observe_events' = Append(observe_events, "observe_first")
    /\ OnlineObserverHook("add_first")
    /\ UNCHANGED <<executor_adder, observer_adder>>

\* executor.observe(actions, next_timestep, next_extras).
Observe ==
    /\ observe_raised = "none"
    /\ observe_events # <<>>
    /\ Len(observe_events) < MaxEvents
    /\ observe_events' = Append(observe_events, "observe")
    /\ OnlineObserverHook("add")
    /\ UNCHANGED <<executor_adder, observer_adder>>

\* C23: the observer forwards the observe events to the executor's adder one for
\* one and in order, observe_first as add_first and observe as add, and with no
\* adder attached nothing is written.
C23_ForwardedOneForOne ==
    adder_calls =
        IF executor_adder = "None" THEN <<>>
        ELSE [i \in 1..Len(observe_events) |->
                 IF observe_events[i] = "observe_first" THEN "add_first" ELSE "add"]

\* =================================================================
\* Specifications
\* =================================================================

\* What a component's steps leave alone: the other components.
ClientFrame ==
    UNCHANGED <<builderVars, trainerVars, replayVars, adderVars, selectorVars,
                lossVars, systemVars, observerVars>>
BuilderFrame ==
    UNCHANGED <<server_counts, variables, get_call_counter, set_call_counter,
                future, queue, raised, since_submit, gap, window, last_copy_sub,
                trainerVars, replayVars, adderVars, selectorVars,
                lossVars, systemVars, observerVars>>
TrainerFrame ==
    UNCHANGED <<clientVars, builderVars, replayVars, adderVars, selectorVars,
                lossVars, systemVars, observerVars>>

\* The replay components as the other specifications fix them: the builder's
\* default executor and a ratio limiter, nothing built yet.
ReplayIdle ==
    /\ ReplayInit
    /\ executor_fn = "FeedForwardExecutor"
    /\ samples_per_insert = SamplesPerInsert
    /\ min_replay_size = MinReplaySize

\* The adder and the action selector as the other specifications fix them.
AdderIdle ==
    /\ AdderInit
    /\ cfg_sequence_length = SequenceLength
    /\ cfg_period = 1
    /\ episode_length = 1

SelectorIdle ==
    /\ SelectorInit
    /\ q_values = [a \in Actions |-> 0]
    /\ legal_actions = [a \in Actions |-> TRUE]

\* The trainer as the client and builder specifications fix it: a MADQNTrainer
\* about to be constructed.
TrainerIdle ==
    /\ TrainerInit
    /\ trainer_fn = "MADQNTrainer"
    /\ q_networks = [k \in NetKeys |-> 0]
    /\ target_q_networks = q_networks
    /\ importance_sampling_exponent = "None"
    /\ replay_client = "None"

\* The masked loss, the System builder and the observer as the other
\* specifications fix them.
LossIdle ==
    /\ LossInit
    /\ zero_padding_mask = [b \in 1..MaskBatch |-> PrefixMask(MaskLength)]
    /\ mixed = TRUE

SystemIdle ==
    /\ SystemNew
    /\ components = [g \in GroupSet |-> {}]

ObserverIdle ==
    /\ ObserverInit
    /\ executor_adder = "Adder"
    /\ observer_adder = "unset"

OthersIdle == LossIdle /\ SystemIdle /\ ObserverIdle

\* The VariableClient with its worker, its server and its callers.
Init == ClientInit /\ BuilderInit /\ TrainerIdle /\ ReplayIdle /\ AdderIdle
            /\ SelectorIdle /\ OthersIdle

Next ==
    \/ GetAsyncCall /\ ClientFrame
    \/ SetAsync /\ ClientFrame
    \/ WorkerStep /\ ClientFrame
    \/ GetAndWaitCall /\ ClientFrame
    \/ GetAllAndWaitCall /\ ClientFrame
    \/ SetAndWaitCall /\ ClientFrame
    \/ AddAndWaitCall /\ ClientFrame
    \/ LocalAssign /\ ClientFrame
    \/ ServerPublish /\ ClientFrame

Spec == Init /\ [][Next]_vars

\* The builder making executors against a variable server the trainer publishes to.
BuilderNext ==
    \/ MakeExecutorCall /\ UNCHANGED server_params /\ BuilderFrame
    \/ UpdateAndWaitReturn /\ UNCHANGED server_params /\ BuilderFrame
    \/ ConstructExecutorStep /\ UNCHANGED server_params /\ BuilderFrame
    \/ SelectActionCall /\ UNCHANGED server_params /\ BuilderFrame
    \/ ServerPublish /\ UNCHANGED <<builderVars, trainerVars, replayVars, adderVars,
                                   selectorVars, lossVars, systemVars,
                                   observerVars>>

SpecBuilder == Init /\ [][BuilderNext]_vars

\* The trainer stepping.
InitTrainer == ClientInit /\ BuilderInit /\ TrainerInit /\ ReplayIdle /\ AdderIdle
                   /\ SelectorIdle /\ OthersIdle

TrainerNext ==
    \/ Construct /\ TrainerFrame
    \/ UpdateTargetNetworks /\ TrainerFrame
    \/ SampleBatch /\ TrainerFrame
    \/ Forward /\ TrainerFrame
    \/ Backward /\ TrainerFrame
    \/ UpdateSamplePriorities /\ TrainerFrame

SpecTrainer == InitTrainer /\ [][TrainerNext]_vars

\* The trainer stepping while the variable server reads its variables.
TrainerServedNext ==
    \/ Construct /\ TrainerFrame
    \/ UpdateTargetNetworks /\ TrainerFrame
    \/ SampleBatch /\ TrainerFrame
    \/ Forward /\ TrainerFrame
    \/ Backward /\ TrainerFrame
    \/ UpdateSamplePriorities /\ TrainerFrame
    \/ GetVariables /\ TrainerFrame

SpecTrainerServed == InitTrainer /\ [][TrainerServedNext]_vars

\* The builder's replay components, the executor's adder writing and the
\* trainer's dataset reading.
ReplayFrame ==
    UNCHANGED <<clientVars, builderVars, trainerVars, adderVars, selectorVars,
                lossVars, systemVars, observerVars>>

InitReplay == ClientInit /\ BuilderInit /\ TrainerIdle /\ ReplayInit /\ AdderIdle
                  /\ SelectorIdle /\ OthersIdle

ReplayNext ==
    \/ MakeReplayTables /\ ReplayFrame
    \/ MakeAdder /\ ReplayFrame
    \/ MakeDatasetIterator /\ ReplayFrame
    \/ Insert /\ ReplayFrame
    \/ Sample /\ ReplayFrame
    \/ NextBatch /\ ReplayFrame

SpecReplay == InitReplay /\ [][ReplayNext]_vars

\* The same with the scheduling of a launched system: the executor process keeps
\* writing, the dataset keeps fetching and the trainer keeps taking batches
\* whenever they are not blocked.
SpecReplayFair ==
    /\ InitReplay
    /\ [][ReplayNext]_vars
    /\ WF_vars(Insert /\ ReplayFrame)
    /\ WF_vars(Sample /\ ReplayFrame)
    /\ WF_vars(NextBatch /\ ReplayFrame)

\* The sequence adder over one episode.
AdderFrame ==
    UNCHANGED <<clientVars, builderVars, trainerVars, replayVars, selectorVars,
                lossVars, systemVars, observerVars>>

InitAdder == ClientInit /\ BuilderInit /\ TrainerIdle /\ ReplayIdle /\ AdderInit
                 /\ SelectorIdle /\ OthersIdle

AdderNext ==
    \/ AdderAdd /\ AdderFrame
    \/ AdderEndEpisode /\ AdderFrame

SpecAdder == InitAdder /\ [][AdderNext]_vars

\* The action selector called on every Q-value vector and legal-action mask.
SelectorFrame ==
    UNCHANGED <<clientVars, builderVars, trainerVars, replayVars, adderVars,
                lossVars, systemVars, observerVars>>

InitSelector == ClientInit /\ BuilderInit /\ TrainerIdle /\ ReplayIdle /\ AdderIdle
                    /\ SelectorInit /\ OthersIdle

SelectorStep == SelectorCall /\ SelectorFrame

SpecSelector == InitSelector /\ [][SelectorStep]_vars

\* The masked loss of the recurrent trainer over every batch of masks.
LossFrame ==
    UNCHANGED <<clientVars, builderVars, trainerVars, replayVars, adderVars,
                selectorVars, systemVars, observerVars>>

InitLoss == ClientInit /\ BuilderInit /\ TrainerIdle /\ ReplayIdle /\ AdderIdle
                /\ SelectorIdle /\ LossInit /\ SystemIdle /\ ObserverIdle

LossStep == RecurrentForward /\ LossFrame

SpecLoss == InitLoss /\ [][LossStep]_vars

\* The System builder: construction and the calls of its operations.
SystemFrame ==
    UNCHANGED <<clientVars, builderVars, trainerVars, replayVars, adderVars,
                selectorVars, lossVars, observerVars>>

InitSystem == ClientInit /\ BuilderInit /\ TrainerIdle /\ ReplayIdle /\ AdderIdle
                  /\ SelectorIdle /\ LossIdle /\ SystemNew /\ ObserverIdle

SystemNext ==
    \/ SystemConstruct /\ SystemFrame
    \/ SystemCallAny /\ SystemFrame
    \/ FireStage /\ SystemFrame
    \/ SystemReturn /\ SystemFrame

SpecSystem == InitSystem /\ [][SystemNext]_vars

\* An executor's environment loop calling observe_first and observe.
ObserverFrame ==
    UNCHANGED <<clientVars, builderVars, trainerVars, replayVars, adderVars,
                selectorVars, lossVars, systemVars>>

InitObserver == ClientInit /\ BuilderInit /\ TrainerIdle /\ ReplayIdle /\ AdderIdle
                    /\ SelectorIdle /\ LossIdle /\ SystemIdle /\ ObserverInit

ObserverNext ==
    \/ ObserveFirst /\ ObserverFrame
    \/ Observe /\ ObserverFrame

SpecObserver == InitObserver /\ [][ObserverNext]_vars

====
